---------------------------- MODULE Spec2Model ----------------------------
(***************************************************************************)
(* A model of net/ipv6/output_core.c:                                      *)
(*   - the fragment-identifier generator (__ipv6_select_ident and its two  *)
(*     callers ipv6_select_ident / ipv6_proxy_select_ident), run by        *)
(*     several concurrent callers on a shared seed and a shared counter    *)
(*     table;                                                              *)
(*   - the extension-header walk ip6_find_1stfragopt;                      *)
(*   - the output finalizer __ip6_local_out / ip6_local_out.               *)
(* The parts share no state; each has its own specification (SpecIdent,    *)
(* SpecWalk, SpecOut) that holds the other parts' variables fixed.         *)
(* SpecRemap applies the generator's replacement of 0 to pairs of bases.   *)
(* Where a line of the code is given as an operator, the operators defined *)
(* just before it are faulty variants of that line; the properties are     *)
(* required to tell the code from them.                                    *)
(***************************************************************************)
EXTENDS Integers, Sequences, FiniteSets, TLC

(***************************************************************************)
(* Bounds of the model.                                                    *)
(***************************************************************************)
\* number of generator calls in one behaviour; each call has its own caller,
\* so up to NumCalls calls run concurrently
NumCalls == 2
\* size of the allocator's counter table (IP_IDENTS_SZ in the kernel)
NumBuckets == 2

Calls == 1..NumCalls
Buckets == 0..(NumBuckets - 1)

\* values a 64-bit word of the seed can take (what get_random_bytes may write)
KeyWords == {0, 1}
\* (saddr, daddr) pairs the callers use
AddrPairs == {<<1, 2>>, <<2, 1>>}

(***************************************************************************)
(* u32 values.  TLC's integers stop below 2^31, so a u32 is kept as its    *)
(* two 16-bit halves <<high, low>>; the arithmetic below is exact 32-bit   *)
(* arithmetic on that representation.                                      *)
(***************************************************************************)
Half == 65536
U32Zero == <<0, 0>>
U32Max == <<Half - 1, Half - 1>>
\* 1 << 31
HighBit == <<32768, 0>>
\* (x + n) mod 2^32, for a small n
U32Add(x, n) ==
    LET low == x[2] + n
    IN  <<(x[1] + (low \div Half)) % Half, low % Half>>

\* the value the bucket counters hold when the first call arrives: every
\* counter starts at the same value, at 0 or one step before the wrap
CtrInit == {U32Zero, U32Max}

(***************************************************************************)
(* Identifier generator: state.                                            *)
(***************************************************************************)
VARIABLES
    ip_id_key,   \* net->ipv4.ip_id_key: the two 64-bit words of the seed
    ip_idents,   \* the allocator's counter table, bucket -> u32
    ipc,         \* per call: its position
    loc,         \* per call: its arguments, locals and result
    frag_id,     \* per call: the identifier field of its packet (network order)
    raced        \* some call saw a zero seed while another was filling it

identVars == <<ip_id_key, ip_idents, ipc, loc, frag_id, raced>>

\* saddr, daddr: the addresses the caller presents (the route's, or the
\* packet header's); skblen: the captured length of the proxy path's packet
NoLoc == [kind |-> "none", saddr |-> 0, daddr |-> 0, skblen |-> 0,
          dst |-> 0, src |-> 0, z0 |-> 0, key |-> <<0, 0>>,
          hash |-> 0, bucket |-> 0, base |-> U32Zero, id |-> U32Zero]

\* siphash_key_is_zero(): !(key->key[0] | key->key[1]), on the two words read
KeyCheckFirstWord(w0, w1) == w0 = 0
siphash_key_is_zero(w0, w1) == w0 = 0 /\ w1 = 0

\* siphash(&combined, sizeof(combined), key): a keyed hash of the buffer
\* (dst, src) in that layout order; any mixing function of all four inputs
siphash(combined, key) ==
    2 * combined[1] + combined[2] + 5 * key[1] + 7 * key[2]

\* the `combined' buffer: .dst first, then .src
Combined(dst, src) == <<dst, src>>

\* ip_idents_reserve(): the bucket a hash selects
BucketOf(hash) == hash % NumBuckets

\* the arguments of the call ip_idents_reserve(hash, 1)
ReserveArgsNoSegs(hash) == <<hash, 0>>
ReserveArgsTwoSegs(hash) == <<hash, 2>>
ReserveArgs(hash) == <<hash, 1>>

\* if (unlikely(!id)) id = 1 << 31;
FixupNone(id) == id
FixupOne(id) == IF id = U32Zero THEN <<0, 1>> ELSE id
FixupAllOnes(id) == IF id = U32Zero THEN U32Max ELSE id
FixupId(id) == IF id = U32Zero THEN HighBit ELSE id

\* htonl() on a little-endian build: the four bytes reversed
htonl(x) ==
    LET b0 == x[2] % 256
        b1 == x[2] \div 256
        b2 == x[1] % 256
        b3 == x[1] \div 256
    IN  <<b0 * 256 + b1, b2 * 256 + b3>>


(***************************************************************************)
(* Extension-header walk: state.                                           *)
(***************************************************************************)
VARIABLES
    mip6,        \* IS_ENABLED(CONFIG_IPV6_MIP6)
    packet_len,  \* skb_tail_pointer(skb) - skb_network_header(skb)
    skb_nexthdr, \* ipv6_hdr(skb)->nexthdr, the base header's next-header byte
    skb_pad,     \* number of leading maximum-length hop-by-hop headers
    skb_hdrs,    \* the extension headers of the packet read so far, in order
    wpc,         \* position of the walk
    offset,      \* unsigned int offset
    nexthdr,     \* u8 **nexthdr: offset in the packet of the byte it designates
    found_rhdr,  \* int found_rhdr
    len,         \* unsigned int len
    ret,         \* the value returned
    site,        \* the source line of the return statement taken
    iters,       \* number of completed loop iterations
    oob          \* a byte at or beyond packet_len has been read

walkVars == <<mip6, packet_len, skb_nexthdr, skb_pad, skb_hdrs, wpc, offset,
              nexthdr, found_rhdr, len, ret, site, iters, oob>>

(***************************************************************************)
(* Output finalizer (__ip6_local_out, ip6_local_out): state.               *)
(***************************************************************************)
VARIABLES
    skb_len,     \* skb->len, a u32
    entry,       \* the exported function the caller entered
    opc,         \* position of the call
    payload_len, \* ipv6_hdr(skb)->payload_len as stored (network order), -1 before
    nhoff,       \* IP6CB(skb)->nhoff, -1 before it is set
    protocol,    \* skb->protocol as stored (network order), -1 before it is set
    verdict,     \* what nf_hook returned
    xmit,        \* what dst_output returned
    hooks,       \* number of calls of nf_hook
    xmits,       \* number of calls of dst_output made by ip6_local_out
    out_ret      \* the value returned to the caller

outVars == <<skb_len, entry, opc, payload_len, nhoff, protocol, verdict, xmit,
             hooks, xmits, out_ret>>

(***************************************************************************)
(* The replacement of an allocator value of 0, over one wrap of a          *)
(* counter: state.                                                         *)
(***************************************************************************)
VARIABLES
    bases,       \* two of the values ip_idents_reserve returns within one wrap
    ids          \* the identifiers __ipv6_select_ident returns for them

remapVars == <<bases, ids>>

vars == <<identVars, walkVars, outVars, remapVars>>

\* the finalizer's variables while another part is under study
OutIdle ==
    /\ skb_len = U32Zero
    /\ entry = "none"
    /\ opc = "idle"
    /\ payload_len = -1
    /\ nhoff = -1
    /\ protocol = -1
    /\ verdict = 0
    /\ xmit = 0
    /\ hooks = 0
    /\ xmits = 0
    /\ out_ret = 0

\* the replacement's variables while another part is under study
RemapIdle ==
    /\ bases = <<U32Zero, U32Zero>>
    /\ ids = <<>>

(***************************************************************************)
(* Identifier generator: operations.                                       *)
(***************************************************************************)
\* the walk's variables while the identifier generator is under study
WalkIdle ==
    /\ mip6 = FALSE
    /\ packet_len = 0
    /\ skb_nexthdr = 0
    /\ skb_pad = 0
    /\ skb_hdrs = <<>>
    /\ wpc = "idle"
    /\ offset = 0
    /\ nexthdr = 0
    /\ found_rhdr = 0
    /\ len = 0
    /\ ret = 0
    /\ site = 0
    /\ iters = 0
    /\ oob = FALSE

InitIdent ==
    /\ ip_id_key = <<0, 0>>
    /\ \E v \in CtrInit : ip_idents = [b \in Buckets |-> v]
    /\ ipc = [c \in Calls |-> "start"]
    /\ loc = [c \in Calls |-> NoLoc]
    /\ frag_id = [c \in Calls |-> U32Zero]
    /\ raced = FALSE
    /\ WalkIdle
    /\ OutIdle
    /\ RemapIdle

\* offsetof(struct ipv6hdr, saddr) and sizeof(struct in6_addr[2])
SaddrOff == 8
AddrsLen == 32
\* captured lengths of the packets handed to the proxy path
SkbLens == {39, 40}

\* skb_header_pointer(skb, off, len, buf): NULL unless the region is in the packet
skb_header_pointer(skblen, off, n) == off + n <= skblen

\* calls are numbered in the order they start
MayStart(c) ==
    /\ ipc[c] = "start"
    /\ \A d \in Calls : d < c => ipc[d] # "start"

\* ipv6_select_ident(net, fhdr, rt): line 72 up to the call, with
\* rt->rt6i_src.addr = a[1] and rt->rt6i_dst.addr = a[2]
SelectIdent(c) ==
    /\ MayStart(c)
    /\ \E a \in AddrPairs :
         loc' = [loc EXCEPT ![c] = [NoLoc EXCEPT !.kind = "route",
                                                 !.saddr = a[1], !.daddr = a[2],
                                                 !.dst = a[2], !.src = a[1]]]
    /\ ipc' = [ipc EXCEPT ![c] = "check0"]
    /\ UNCHANGED <<ip_id_key, ip_idents, frag_id, raced>>
    /\ UNCHANGED <<walkVars, outVars, remapVars>>

\* line 62: __ipv6_select_ident(net, &addrs[1], &addrs[0]), as <<dst, src>>
ProxyArgsInOrder(addrs) == <<addrs[1], addrs[2]>>
ProxyArgs(addrs) == <<addrs[2], addrs[1]>>

\* lines 59-60: if (!addrs) return; the position of the call afterwards
AfterNullGoesOn == "check0"
AfterNull == "done"

\* ipv6_proxy_select_ident(net, skb): lines 55-62 up to the call; the header
\* holds the source address a[1] and, after it, the destination address
\* a[2]; addrs[0] and addrs[1] are the two addresses read at the offset of
\* the source address
ProxySelectIdent(c) ==
    /\ MayStart(c)
    /\ \E a \in AddrPairs, skblen \in SkbLens :
         IF skb_header_pointer(skblen, SaddrOff, AddrsLen)
         THEN LET addrs == <<a[1], a[2]>>
                  args == ProxyArgs(addrs)
              IN  /\ loc' = [loc EXCEPT ![c] = [NoLoc EXCEPT !.kind = "proxy",
                                                             !.saddr = a[1],
                                                             !.daddr = a[2],
                                                             !.skblen = skblen,
                                                             !.dst = args[1],
                                                             !.src = args[2]]]
                  /\ ipc' = [ipc EXCEPT ![c] = "check0"]
         ELSE /\ loc' = [loc EXCEPT ![c] = [NoLoc EXCEPT !.kind = "skipped",
                                                         !.skblen = skblen]]
              /\ ipc' = [ipc EXCEPT ![c] = AfterNull]
    /\ UNCHANGED <<ip_id_key, ip_idents, frag_id, raced>>
    /\ UNCHANGED <<walkVars, outVars, remapVars>>

\* siphash_key_is_zero(): load of key[0]
Check0(c) ==
    /\ ipc[c] = "check0"
    /\ loc' = [loc EXCEPT ![c].z0 = ip_id_key[1]]
    /\ ipc' = [ipc EXCEPT ![c] = "check1"]
    /\ UNCHANGED <<ip_id_key, ip_idents, frag_id, raced>>
    /\ UNCHANGED <<walkVars, outVars, remapVars>>

\* siphash_key_is_zero(): load of key[1], and the branch of line 24; the
\* word loaded first is dead afterwards
Check1(c) ==
    /\ ipc[c] = "check1"
    /\ IF siphash_key_is_zero(loc[c].z0, ip_id_key[2])
       THEN /\ ipc' = [ipc EXCEPT ![c] = "fill0"]
            /\ raced' = (raced \/ \E d \in Calls \ {c} : ipc[d] \in {"fill0", "fill1"})
       ELSE /\ ipc' = [ipc EXCEPT ![c] = "hash0"]
            /\ UNCHANGED raced
    /\ loc' = [loc EXCEPT ![c].z0 = 0]
    /\ UNCHANGED <<ip_id_key, ip_idents, frag_id>>
    /\ UNCHANGED <<walkVars, outVars, remapVars>>

\* get_random_bytes(&net->ipv4.ip_id_key, 16): the store to key[0]
Fill0(c) ==
    /\ ipc[c] = "fill0"
    /\ \E r \in KeyWords : ip_id_key' = [ip_id_key EXCEPT ![1] = r]
    /\ ipc' = [ipc EXCEPT ![c] = "fill1"]
    /\ UNCHANGED <<ip_idents, loc, frag_id, raced>>
    /\ UNCHANGED <<walkVars, outVars, remapVars>>

\* get_random_bytes(&net->ipv4.ip_id_key, 16): the store to key[1]
Fill1(c) ==
    /\ ipc[c] = "fill1"
    /\ \E r \in KeyWords : ip_id_key' = [ip_id_key EXCEPT ![2] = r]
    /\ ipc' = [ipc EXCEPT ![c] = "hash0"]
    /\ UNCHANGED <<ip_idents, loc, frag_id, raced>>
    /\ UNCHANGED <<walkVars, outVars, remapVars>>

\* siphash(): load of key[0]
Hash0(c) ==
    /\ ipc[c] = "hash0"
    /\ loc' = [loc EXCEPT ![c].key = <<ip_id_key[1], 0>>]
    /\ ipc' = [ipc EXCEPT ![c] = "hash1"]
    /\ UNCHANGED <<ip_id_key, ip_idents, frag_id, raced>>
    /\ UNCHANGED <<walkVars, outVars, remapVars>>

\* siphash(): load of key[1], and the hash of line 28
Hash1(c) ==
    /\ ipc[c] = "hash1"
    /\ LET key == <<loc[c].key[1], ip_id_key[2]>>
       IN  loc' = [loc EXCEPT ![c].key = key,
                              ![c].hash = siphash(Combined(loc[c].dst, loc[c].src), key)]
    /\ ipc' = [ipc EXCEPT ![c] = "reserve"]
    /\ UNCHANGED <<ip_id_key, ip_idents, frag_id, raced>>
    /\ UNCHANGED <<walkVars, outVars, remapVars>>

\* lines 34-38: id = ip_idents_reserve(hash, 1), one atomic fetch-and-add on
\* the bucket that returns the counter's previous value; the replacement of 0;
\* and the caller's store of htonl(id) into its packet (line 63 or 73)
Reserve(c) ==
    /\ ipc[c] = "reserve"
    /\ LET args == ReserveArgs(loc[c].hash)
           b    == BucketOf(args[1])
           base == ip_idents[b]
           id   == FixupId(base)
       IN  /\ ip_idents' = [ip_idents EXCEPT ![b] = U32Add(base, args[2])]
           /\ loc' = [loc EXCEPT ![c].bucket = b, ![c].base = base, ![c].id = id]
           /\ frag_id' = [frag_id EXCEPT ![c] = htonl(id)]
    /\ ipc' = [ipc EXCEPT ![c] = "done"]
    /\ UNCHANGED <<ip_id_key, raced>>
    /\ UNCHANGED <<walkVars, outVars, remapVars>>

NextIdent ==
    \/ \E c \in Calls : SelectIdent(c)
    \/ \E c \in Calls : ProxySelectIdent(c)
    \/ \E c \in Calls : Check0(c)
    \/ \E c \in Calls : Check1(c)
    \/ \E c \in Calls : Fill0(c)
    \/ \E c \in Calls : Fill1(c)
    \/ \E c \in Calls : Hash0(c)
    \/ \E c \in Calls : Hash1(c)
    \/ \E c \in Calls : Reserve(c)

SpecIdent == InitIdent /\ [][NextIdent]_vars



(***************************************************************************)
(* Extension-header walk: the packet.                                      *)
(*                                                                         *)
(* The walk reads, of each extension header, its first two bytes (next     *)
(* header, length) and, with CONFIG_IPV6_MIP6, whether its options hold a  *)
(* home-address option.  A packet is its captured length, the base         *)
(* header's next-header byte and its extension headers.  The headers are   *)
(* unconstrained input: the content of a header is fixed the first time    *)
(* the walk reads it (skb_hdrs), from HdrChoices.  A packet may start with *)
(* skb_pad hop-by-hop headers of known content that bring the offset next  *)
(* to IPV6_MAXPLEN.                                                        *)
(***************************************************************************)
\* number of extension headers of free content in a packet
MaxHdrs == 3

NEXTHDR_HOP == 0
NEXTHDR_TCP == 6
NEXTHDR_ROUTING == 43
NEXTHDR_FRAGMENT == 44
NEXTHDR_DEST == 60
IPV6_MAXPLEN == 65535
EINVAL == 22
\* sizeof(struct ipv6hdr), sizeof(struct ipv6_opt_hdr), offsetof(struct ipv6hdr, nexthdr)
Ipv6HdrLen == 40
OptHdrLen == 2
NexthdrOff == 6

\* next-header bytes, header-length bytes and captured lengths of the packets
UpperHdrs == {NEXTHDR_TCP, NEXTHDR_FRAGMENT}
NextHdrs == {NEXTHDR_HOP, NEXTHDR_ROUTING, NEXTHDR_DEST} \cup UpperHdrs
HdrLens == {0, 2}
PacketLens == {39, 40, 41, 48, 49, 50, 120, 65521, 65600}
PadCounts == {0, 32}

\* ipv6_optlen(p): (((p)->hdrlen + 1) << 3)
ipv6_optlen(h) == (h.hdrlen + 1) * 8

\* the leading headers of known content: hop-by-hop headers of 2048 bytes,
\* the last one of 1992 bytes, so that 32 of them end at offset 65520
PadHdr(i) == [at |-> Ipv6HdrLen + (i - 1) * 2048, nexthdr |-> NEXTHDR_HOP,
              hdrlen |-> IF i < skb_pad THEN 255 ELSE 248, hao |-> FALSE]
PadsEnd == IF skb_pad = 0 THEN Ipv6HdrLen
           ELSE PadHdr(skb_pad).at + ipv6_optlen(PadHdr(skb_pad))

Known(off) == \E i \in 1..Len(skb_hdrs) : skb_hdrs[i].at = off

\* what the header at offset off, reached with next-header type `type', can
\* hold: an option list with a home-address option only in a destination-
\* options header of 24 bytes; the last free header ends the chain
HdrChoices(off, type) ==
    IF off < PadsEnd
    THEN {PadHdr(i) : i \in {j \in 1..skb_pad : PadHdr(j).at = off}}
    ELSE IF Known(off)
    THEN {skb_hdrs[i] : i \in {j \in 1..Len(skb_hdrs) : skb_hdrs[j].at = off}}
    ELSE {h \in [at : {off},
                 nexthdr : IF Len(skb_hdrs) + 1 < MaxHdrs THEN NextHdrs ELSE UpperHdrs,
                 hdrlen : HdrLens,
                 hao : BOOLEAN] :
            h.hao => (type = NEXTHDR_DEST /\ h.hdrlen = 2)}

\* the packet after the walk has read header h
Read(h) == IF h.at < PadsEnd \/ Known(h.at) THEN skb_hdrs ELSE Append(skb_hdrs, h)

\* the header that starts at offset off (read before)
HdrAt(off) ==
    IF off < PadsEnd
    THEN PadHdr(CHOOSE i \in 1..skb_pad : PadHdr(i).at = off)
    ELSE skb_hdrs[CHOOSE i \in 1..Len(skb_hdrs) : skb_hdrs[i].at = off]

\* **nexthdr: the byte the next-header reference designates
NexthdrByte == IF nexthdr = NexthdrOff THEN skb_nexthdr ELSE HdrAt(nexthdr).nexthdr

\* ipv6_find_tlv(skb, offset, IPV6_TLV_HAO) on header h at offset off: the
\* offset of the option, or a negative value when the header is not wholly
\* inside the packet or holds no such option
ipv6_find_tlv(off, h) ==
    IF off + OptHdrLen > packet_len THEN -1
    ELSE IF off + ipv6_optlen(h) > packet_len THEN -1
    ELSE IF h.hao THEN off + OptHdrLen
    ELSE -1

(***************************************************************************)
(* Extension-header walk: ip6_find_1stfragopt.                             *)
(***************************************************************************)
\* the generator's variables while the walk is under study
IdentIdle ==
    /\ ip_id_key = <<0, 0>>
    /\ ip_idents = [b \in Buckets |-> U32Zero]
    /\ ipc = [c \in Calls |-> "start"]
    /\ loc = [c \in Calls |-> NoLoc]
    /\ frag_id = [c \in Calls |-> U32Zero]
    /\ raced = FALSE

\* lines 79-83
InitWalk ==
    /\ mip6 \in BOOLEAN
    /\ packet_len \in PacketLens
    /\ skb_pad \in PadCounts
    /\ skb_nexthdr \in (IF skb_pad = 0 THEN NextHdrs ELSE {NEXTHDR_HOP})
    /\ skb_hdrs = <<>>
    /\ wpc = "while"
    /\ offset = Ipv6HdrLen
    /\ nexthdr = NexthdrOff
    /\ found_rhdr = 0
    /\ len = 0
    /\ ret = 0
    /\ site = 0
    /\ iters = 0
    /\ oob = FALSE
    /\ IdentIdle
    /\ OutIdle
    /\ RemapIdle

Returns(value, line) ==
    /\ wpc' = "done"
    /\ ret' = value
    /\ site' = line

\* line 85: while (offset <= packet_len)
LoopCondStrict(off, plen) == off < plen
LoopCond(off, plen) == off <= plen

\* line 85, and line 120 when the loop ends
While ==
    /\ wpc = "while"
    /\ IF LoopCond(offset, packet_len)
       THEN wpc' = "switch" /\ UNCHANGED <<ret, site>>
       ELSE Returns(-EINVAL, 120)
    /\ UNCHANGED <<mip6, packet_len, skb_nexthdr, skb_pad, skb_hdrs, offset,
                   nexthdr, found_rhdr, len, iters, oob>>
    /\ UNCHANGED <<identVars, outVars, remapVars>>

\* line 94: found_rhdr = 1
RhdrSet == 1

\* line 101: if (found_rhdr)
StopAtDestNever(rh) == FALSE
StopAtDestAlways(rh) == TRUE
StopAtDest(rh) == rh # 0

\* line 98: if (ipv6_find_tlv(skb, offset, IPV6_TLV_HAO) >= 0)
HaoFoundNever(r) == FALSE
HaoFound(r) == r >= 0

\* line 108: if (offset + sizeof(struct ipv6_opt_hdr) > packet_len)
TruncatedLoose(off, plen) == off + 1 > plen
Truncated(off, plen) == off + OptHdrLen > plen

\* line 114: if (len + offset >= IPV6_MAXPLEN)
ExceedsLoose(l, off) == l + off > IPV6_MAXPLEN + 1
ExceedsNever(l, off) == FALSE
ExceedsMaxplen(l, off) == l + off >= IPV6_MAXPLEN

\* line 116: offset += len
AdvanceNone(off, l) == off
Advance(off, l) == off + l

\* line 117: *nexthdr = &exthdr->nexthdr, the first byte of the header at
\* exthdr; ref is the reference before the assignment
NexthdrRefKept(ref, exthdr) == ref
NexthdrRef(ref, exthdr) == exthdr

\* lines 89-106: switch (**nexthdr)
Switch ==
    /\ wpc = "switch"
    /\ oob' = (oob \/ nexthdr >= packet_len)
    /\ LET type == NexthdrByte
       IN  CASE type = NEXTHDR_HOP ->
                  /\ wpc' = "trunc"
                  /\ UNCHANGED <<found_rhdr, skb_hdrs, ret, site>>
             [] type = NEXTHDR_ROUTING ->
                  /\ found_rhdr' = RhdrSet
                  /\ wpc' = "trunc"
                  /\ UNCHANGED <<skb_hdrs, ret, site>>
             [] type = NEXTHDR_DEST ->
                  IF mip6 /\ offset + OptHdrLen <= packet_len
                  THEN \* ipv6_find_tlv reads the header at offset
                       \E h \in HdrChoices(offset, type) :
                          /\ skb_hdrs' = Read(h)
                          /\ IF HaoFound(ipv6_find_tlv(offset, h))
                             THEN wpc' = "trunc" /\ UNCHANGED <<ret, site>>
                             ELSE IF StopAtDest(found_rhdr)
                             THEN Returns(offset, 102)
                             ELSE wpc' = "trunc" /\ UNCHANGED <<ret, site>>
                          /\ UNCHANGED found_rhdr
                  ELSE /\ IF StopAtDest(found_rhdr)
                          THEN Returns(offset, 102)
                          ELSE wpc' = "trunc" /\ UNCHANGED <<ret, site>>
                       /\ UNCHANGED <<found_rhdr, skb_hdrs>>
             [] OTHER ->
                  /\ Returns(offset, 105)
                  /\ UNCHANGED <<found_rhdr, skb_hdrs>>
    /\ UNCHANGED <<mip6, packet_len, skb_nexthdr, skb_pad, offset, nexthdr,
                   len, iters>>
    /\ UNCHANGED <<identVars, outVars, remapVars>>

\* lines 108-109
Trunc ==
    /\ wpc = "trunc"
    /\ IF Truncated(offset, packet_len)
       THEN Returns(-EINVAL, 109)
       ELSE wpc' = "optlen" /\ UNCHANGED <<ret, site>>
    /\ UNCHANGED <<mip6, packet_len, skb_nexthdr, skb_pad, skb_hdrs, offset,
                   nexthdr, found_rhdr, len, iters, oob>>
    /\ UNCHANGED <<identVars, outVars, remapVars>>

\* lines 111-113: len = ipv6_optlen(exthdr), reading exthdr->hdrlen
Optlen ==
    /\ wpc = "optlen"
    /\ \E h \in HdrChoices(offset, NexthdrByte) :
          /\ skb_hdrs' = Read(h)
          /\ len' = ipv6_optlen(h)
    /\ oob' = (oob \/ offset + 1 >= packet_len)
    /\ wpc' = "maxplen"
    /\ UNCHANGED <<mip6, packet_len, skb_nexthdr, skb_pad, offset, nexthdr,
                   found_rhdr, ret, site, iters>>
    /\ UNCHANGED <<identVars, outVars, remapVars>>

\* lines 114-117
Maxplen ==
    /\ wpc = "maxplen"
    /\ IF ExceedsMaxplen(len, offset)
       THEN /\ Returns(-EINVAL, 115)
            /\ UNCHANGED <<offset, nexthdr, iters>>
       ELSE /\ offset' = Advance(offset, len)
            /\ nexthdr' = NexthdrRef(nexthdr, offset)
            /\ iters' = iters + 1
            /\ wpc' = "while"
            /\ UNCHANGED <<ret, site>>
    /\ UNCHANGED <<mip6, packet_len, skb_nexthdr, skb_pad, skb_hdrs,
                   found_rhdr, len, oob>>
    /\ UNCHANGED <<identVars, outVars, remapVars>>

NextWalk ==
    \/ While
    \/ Switch
    \/ Trunc
    \/ Optlen
    \/ Maxplen

SpecWalk == InitWalk /\ [][NextWalk]_vars

\* the walk is one synchronous call that runs to its return
FairSpecWalk ==
    /\ SpecWalk
    /\ WF_vars(NextWalk)

(***************************************************************************)
(* Output finalizer: __ip6_local_out and ip6_local_out.                    *)
(***************************************************************************)
\* ETH_P_IPV6 (0x86DD)
ETH_P_IPV6 == 34525

\* skb->len of the packets handed to the finalizer: the packet holds at
\* least the base header; 65575 is the base header plus 65535 bytes;
\* <<32768, 40>> is 2^31 + 40
SkbLenSamples == {<<0, 40>>, <<0, 41>>, <<0, 1500>>, <<0, 65535>>,
                  <<1, 39>>, <<1, 40>>, <<1, 45>>, <<2, 40>>,
                  <<32768, 39>>, <<32768, 40>>, <<32768, 45>>, U32Max}
\* what nf_hook returns (1: the caller goes on; 0 and negative: it does not)
\* and what dst_output returns
HookResults == {-1, 0, 1, 2}
XmitResults == {-EINVAL, 0, 1}

\* (x - n) mod 2^32, for a small n: unsigned subtraction
U32Sub(x, n) ==
    LET low == x[2] - n
    IN  IF low >= 0 THEN <<x[1], low>>
        ELSE <<(x[1] + Half - 1) % Half, low + Half>>

\* the u32 x converted to int (two's complement) is negative
IntNegative(x) == x[1] >= 32768

\* line 129: if (len > IPV6_MAXPLEN), a comparison of ints; n is a small
\* non-negative int
IntGtUnsigned(x, n) ==
    \/ x[1] > n \div Half
    \/ (x[1] = n \div Half /\ x[2] > n % Half)
IntGt(x, n) == ~IntNegative(x) /\ IntGtUnsigned(x, n)

\* htons() on a little-endian build, of the low 16 bits of its argument
htons(v) ==
    LET t == v % Half
    IN  (t % 256) * 256 + t \div 256

\* the low 16 bits of an int kept as a u32
Low16(x) == x[2]

InitOut ==
    /\ skb_len \in SkbLenSamples
    /\ entry \in {"__ip6_local_out", "ip6_local_out"}
    /\ opc = "prepare"
    /\ payload_len = -1
    /\ nhoff = -1
    /\ protocol = -1
    /\ verdict = 0
    /\ xmit = 0
    /\ hooks = 0
    /\ xmits = 0
    /\ out_ret = 0
    /\ IdentIdle
    /\ WalkIdle
    /\ RemapIdle

\* lines 128-134: the payload length, nhoff and the protocol tag
LocalOutPrepare ==
    /\ opc = "prepare"
    /\ LET l == U32Sub(skb_len, Ipv6HdrLen)
           l2 == IF IntGt(l, IPV6_MAXPLEN) THEN U32Zero ELSE l
       IN  payload_len' = htons(Low16(l2))
    /\ nhoff' = NexthdrOff
    /\ protocol' = htons(ETH_P_IPV6)
    /\ opc' = "hook"
    /\ UNCHANGED <<skb_len, entry, verdict, xmit, hooks, xmits, out_ret>>
    /\ UNCHANGED <<identVars, walkVars, remapVars>>

\* lines 136-137: return nf_hook(...), and line 145 in ip6_local_out
NfHook ==
    /\ opc = "hook"
    /\ \E v \in HookResults :
          /\ verdict' = v
          /\ IF entry = "__ip6_local_out"
             THEN opc' = "done" /\ out_ret' = v
             ELSE opc' = "test" /\ UNCHANGED out_ret
    /\ hooks' = hooks + 1
    /\ UNCHANGED <<skb_len, entry, payload_len, nhoff, protocol, xmit, xmits>>
    /\ UNCHANGED <<identVars, walkVars, remapVars>>

\* line 146: if (likely(err == 1))
ContinueNonZero(e) == e # 0
Continue(e) == e = 1

\* lines 146-149
DstOutput ==
    /\ opc = "test"
    /\ IF Continue(verdict)
       THEN \E r \in XmitResults :
               /\ xmit' = r
               /\ xmits' = xmits + 1
               /\ out_ret' = r
       ELSE /\ out_ret' = verdict
            /\ UNCHANGED <<xmit, xmits>>
    /\ opc' = "done"
    /\ UNCHANGED <<skb_len, entry, payload_len, nhoff, protocol, verdict, hooks>>
    /\ UNCHANGED <<identVars, walkVars, remapVars>>

NextOut ==
    \/ LocalOutPrepare
    \/ NfHook
    \/ DstOutput

SpecOut == InitOut /\ [][NextOut]_vars

(***************************************************************************)
(* The replacement of 0 (lines 35-36) applied to the bases of one wrap.    *)
(* Within 2^32 successive reservations a counter returns every u32 value   *)
(* exactly once, so any two different values are bases of one wrap.        *)
(***************************************************************************)
U32Samples == {U32Zero, <<0, 1>>, <<0, Half - 1>>, <<1, 0>>, <<32767, Half - 1>>,
               HighBit, <<32768, 1>>, U32Max}

InitRemap ==
    /\ bases \in {p \in U32Samples \X U32Samples : p[1] # p[2]}
    /\ ids = <<>>
    /\ IdentIdle
    /\ WalkIdle
    /\ OutIdle

\* lines 34-38 for the next of the two reservations
Remap ==
    /\ Len(ids) < Len(bases)
    /\ ids' = Append(ids, FixupId(bases[Len(ids) + 1]))
    /\ UNCHANGED bases
    /\ UNCHANGED <<identVars, walkVars, outVars>>

NextRemap ==
    \/ Remap

SpecRemap == InitRemap /\ [][NextRemap]_vars

(***************************************************************************)
(* Identifier generator: properties.                                       *)
(***************************************************************************)
\* the calls that have returned from __ipv6_select_ident
Issued == {c \in Calls : ipc[c] = "done" /\ loc[c].kind \in {"route", "proxy"}}
InFlight(c) == ipc[c] \notin {"start", "done"}

\* C1: every identifier __ipv6_select_ident hands back, on either path and
\* under every interleaving, is non-zero: an allocator value of 0 comes back
\* as 2^31, any other allocator value comes back unchanged.
C1_NeverZero ==
    \A c \in Issued :
        /\ loc[c].id # U32Zero
        /\ loc[c].base = U32Zero => loc[c].id = <<32768, 0>>
        /\ loc[c].base # U32Zero => loc[c].id = loc[c].base

\* a call got 0 from the allocator and returned 2^31 while another call ran
C1_Witness ==
    \E c \in Issued, d \in Calls :
        /\ loc[c].base = U32Zero
        /\ loc[c].id = <<32768, 0>>
        /\ InFlight(d)

\* C2: calls that reserve from the same bucket, concurrently or not, never
\* observe the same base; the bases one bucket issues do not repeat (the
\* counter cannot wrap within the calls of one behaviour).
C2_DistinctBases ==
    \A c, d \in Issued :
        (c # d /\ loc[c].bucket = loc[d].bucket) => loc[c].base # loc[d].base

\* two calls that overlapped in time reserved from one bucket, across the wrap
C2_Witness ==
    /\ raced
    /\ \E c, d \in Issued :
        /\ loc[c].bucket = loc[d].bucket
        /\ loc[c].base = U32Max
        /\ loc[d].base = U32Zero

\* the step in which call c stores the first word of a fresh seed
StartsFill(c) == ipc[c] = "fill0" /\ ipc'[c] = "fill1"

\* C3 as claimed: once the stored seed is non-zero, no later call overwrites
\* it, i.e. a call begins to store a fresh seed only while the seed is zero.
C3_NeverOverwritten ==
    [][\A c \in Calls : StartsFill(c) => ip_id_key = <<0, 0>>]_vars

\* C3 as amended: the seed is stored to only by a call whose own zero check
\* read both words as zero; a call whose check read a non-zero word never
\* stores to the seed.
C3_OnlyAfterZeroCheck ==
    [][/\ \A c \in Calls :
            (ipc'[c] = "fill0" /\ ipc[c] # "fill0") =>
                (ipc[c] = "check1" /\ loc[c].z0 = 0 /\ ip_id_key[2] = 0)
       /\ ip_id_key' # ip_id_key =>
            \E c \in Calls : ipc[c] \in {"fill0", "fill1"} /\ ipc'[c] # ipc[c]
      ]_vars

\* two racing calls hashed with two different non-zero seeds: the second
\* fill overwrote a seed that was already non-zero
C3_Witness ==
    /\ raced
    /\ \E c, d \in Issued :
        /\ loc[c].key # <<0, 0>>
        /\ loc[d].key # <<0, 0>>
        /\ loc[c].key # loc[d].key

SamePair(c, d) == loc[c].dst = loc[d].dst /\ loc[c].src = loc[d].src

\* C4 as claimed: when first callers raced on the seed, two calls for the
\* same address pair still never receive the same identifier.
C4_UniquePerPair ==
    raced =>
        \A c, d \in Issued : (c # d /\ SamePair(c, d)) => loc[c].id # loc[d].id

\* C4 as amended: when first callers raced on the seed, two calls for the
\* same address pair that hashed with the same seed value reserve from the
\* same bucket and receive different bases, and their identifiers differ
\* unless the two bases are 0 and 2^31.
C4_UniquePerPairAndSeed ==
    raced =>
        \A c, d \in Issued :
            (c # d /\ SamePair(c, d) /\ loc[c].key = loc[d].key) =>
                /\ loc[c].bucket = loc[d].bucket
                /\ loc[c].base # loc[d].base
                /\ loc[c].id = loc[d].id =>
                       {loc[c].base, loc[d].base} = {U32Zero, <<32768, 0>>}

\* after a race on the seed, two calls for one address pair hashed with the
\* same seed and received different identifiers from one bucket
C4_Witness ==
    /\ raced
    /\ \E c, d \in Issued :
        /\ c # d
        /\ SamePair(c, d)
        /\ loc[c].key = loc[d].key
        /\ loc[c].bucket = loc[d].bucket
        /\ loc[c].id # loc[d].id


(***************************************************************************)
(* Extension-header walk: properties.  The layout of the packet is         *)
(* recomputed here from the headers' bytes alone.                          *)
(***************************************************************************)
\* the headers of the packet, in order (those read so far)
Chain == [i \in 1..skb_pad |-> PadHdr(i)] \o skb_hdrs

RECURSIVE SumLen(_, _)
SumLen(hdrs, n) ==
    IF n = 0 THEN 0 ELSE SumLen(hdrs, n - 1) + 8 * (hdrs[n].hdrlen + 1)

\* the offset at which the i-th extension header starts
StartOf(i) == 40 + SumLen(Chain, i - 1)
\* the type of the i-th header: the next-header byte of the one before it
TypeOf(i) == IF i = 1 THEN skb_nexthdr ELSE Chain[i - 1].nexthdr
\* the header the walk is at: the one after those it went past
Cur == iters + 1
RoutingBefore(i) == \E j \in 1..(i - 1) : TypeOf(j) = 43
NoHao(i) == i > Len(Chain) \/ ~Chain[i].hao
Done == wpc = "done"

\* C5: a destination-options header without home-address option that the
\* walk reaches after a routing header makes the walk stop and return the
\* offset at which that header starts.
C5_StopAtDestAfterRouting ==
    (/\ Done
     /\ StartOf(Cur) <= packet_len
     /\ TypeOf(Cur) = 60
     /\ RoutingBefore(Cur)
     /\ NoHao(Cur)) => (ret = StartOf(Cur) /\ site = 102)

\* hop-by-hop, routing, destination-options, upper-layer: the walk returned
\* the offset of the destination-options header
C5_Witness ==
    /\ Done
    /\ skb_pad = 0
    /\ skb_nexthdr = 0
    /\ Len(skb_hdrs) >= 2
    /\ skb_hdrs[1].nexthdr = 43
    /\ skb_hdrs[2].nexthdr = 60
    /\ iters = 2
    /\ ret = 40 + 8 * (skb_hdrs[1].hdrlen + 1) + 8 * (skb_hdrs[2].hdrlen + 1)
    /\ NoHao(3)

\* C6: a destination-options header without home-address option reached
\* while no routing header has been seen is not a stopping point: the walk
\* returns no offset there; for hop-by-hop, destination-options, upper-layer
\* on a fully captured packet the result is the upper-layer header's offset.
C6_DestTransparent ==
    /\ (/\ Done
        /\ StartOf(Cur) <= packet_len
        /\ TypeOf(Cur) = 60
        /\ ~RoutingBefore(Cur)
        /\ NoHao(Cur)) => ret < 0
    /\ (/\ Done
        /\ skb_pad = 0
        /\ skb_nexthdr = 0
        /\ Len(skb_hdrs) >= 2
        /\ skb_hdrs[1].nexthdr = 60
        /\ skb_hdrs[2].nexthdr \notin {0, 43, 60}
        /\ ~skb_hdrs[2].hao
        /\ packet_len >= StartOf(3)) => ret = StartOf(3)
    /\ \A i \in 1..iters :
        (TypeOf(i) = 60 /\ ~RoutingBefore(i)) =>
            StartOf(i + 1) = StartOf(i) + 8 * (Chain[i].hdrlen + 1)

\* hop-by-hop, destination-options (24 bytes, no option), upper-layer, fully
\* captured: the walk went past both and returned the upper-layer offset
C6_Witness ==
    /\ Done
    /\ skb_pad = 0
    /\ skb_nexthdr = 0
    /\ Len(skb_hdrs) = 2
    /\ skb_hdrs[1].nexthdr = 60
    /\ skb_hdrs[2].hdrlen = 2
    /\ ~skb_hdrs[2].hao
    /\ skb_hdrs[2].nexthdr = 6
    /\ ret = 40 + 8 * (skb_hdrs[1].hdrlen + 1) + 24

\* C7: when the current type is not hop-by-hop, routing or destination
\* options the walk returns the current offset at once; a base header
\* followed by an upper-layer protocol gives 40 whenever packet_len >= 40.
C7_StopAtOther ==
    /\ (/\ Done
        /\ StartOf(Cur) <= packet_len
        /\ TypeOf(Cur) \notin {0, 43, 60}) => (ret = StartOf(Cur) /\ site = 105)
    /\ (/\ Done
        /\ skb_nexthdr \notin {0, 43, 60}
        /\ packet_len >= 40) => (ret = 40 /\ iters = 0)

\* base header followed by TCP in a packet of exactly 40 captured bytes
C7_Witness ==
    /\ Done
    /\ skb_nexthdr = 6
    /\ packet_len = 40
    /\ ret = 40

\* the header lengths the walk read and went past or rejected
OverflowAt(i) == StartOf(i) + 8 * (Chain[i].hdrlen + 1) > 65535

\* C8 as amended: for a continuing header whose length field was read, the
\* walk fails at the length test exactly when the offset advanced by the
\* header's length would be greater than 65535; the failure is -EINVAL, the
\* same value as for a malformed chain.
C8_OverflowIff ==
    /\ \A i \in 1..iters : ~OverflowAt(i)
    /\ (Done /\ site = 115) => (Cur <= Len(Chain) /\ OverflowAt(Cur) /\ ret = -22)
    /\ (Done /\ site # 115 /\ Cur <= Len(Chain) /\ OverflowAt(Cur)) =>
           site \in {102, 105, 109, 120}
    /\ (Done /\ site \in {109, 120}) => ret = -22

\* C8 as claimed: the same, with a LengthOverflow result that differs from
\* the result of a malformed chain (the value returned at lines 109 and 120).
C8_OverflowDistinguishable ==
    /\ \A i \in 1..iters : ~OverflowAt(i)
    /\ (Done /\ site = 115) => (Cur <= Len(Chain) /\ OverflowAt(Cur) /\ ret # -22)
    /\ (Done /\ site \in {109, 120}) => ret = -22

\* the walk went past a header that ends at 65528 and failed on the next
\* one, which would end at 65536
C8_Witness ==
    /\ Done
    /\ site = 115
    /\ offset = 65528
    /\ len = 8
    /\ ret = -22

\* the current type continues the walk
Continues(i) == TypeOf(i) \in {0, 43} \/ (TypeOf(i) = 60 /\ ~RoutingBefore(i))

\* C9: the walk returns a negative value, never an offset, when the current
\* offset is greater than packet_len, and when the current type continues
\* the walk and the two bytes (next header, length) at the offset are not
\* inside the packet; the length byte is read, and the length tested against
\* the maximum, only after that check has passed.
C9_Malformed ==
    /\ (Done /\ StartOf(Cur) > packet_len) => (ret = -22 /\ site = 120)
    /\ (/\ Done
        /\ StartOf(Cur) <= packet_len
        /\ Continues(Cur)
        /\ StartOf(Cur) + 2 > packet_len) => (ret = -22 /\ site = 109)
    /\ wpc \in {"optlen", "maxplen"} => offset + 2 <= packet_len
    /\ site = 115 => offset + 2 <= packet_len
    /\ ~oob

\* a hop-by-hop header whose second byte is cut off
C9_Witness ==
    /\ Done
    /\ skb_nexthdr = 0
    /\ packet_len = 41
    /\ offset = 40
    /\ site = 109
    /\ ret = -22

\* C10: the walk returns on every input: each iteration that does not return
\* adds at least 8 to the offset, an iteration runs only while the offset is
\* at most packet_len, so the iterations are bounded by the packet length.
C10_Terminates ==
    /\ <>Done
    /\ [][offset' # offset => offset' >= offset + 8]_vars
    /\ [][iters' # iters => (iters' = iters + 1 /\ offset' # offset /\ offset <= packet_len)]_vars
    /\ [](iters > 0 => 40 + 8 * (iters - 1) <= packet_len)

\* the walk went past a header whose length byte is 0 and then ended
\* because the offset passed packet_len
C10_Witness ==
    /\ Done
    /\ site = 120
    /\ iters >= 2
    /\ \E i \in 1..iters : Chain[i].hdrlen = 0

(***************************************************************************)
(* Output finalizer: properties.                                           *)
(***************************************************************************)
\* total packet length minus the base header, exact for skb_len >= 40
PayloadBytes == U32Sub(skb_len, 40)
\* that length is greater than 65535
PayloadExceeds == PayloadBytes[1] >= 1
Prepared == payload_len # -1
\* a 16-bit value in network byte order
Net16(v) == (v % 256) * 256 + v \div 256

\* C11 as claimed: once __ip6_local_out has written the payload-length
\* field, the field holds (skb->len - 40) when that is at most 65535 and 0
\* when it is greater, never the low 16 bits of a greater length.
C11_PayloadLenOrZero ==
    Prepared =>
        payload_len = (IF PayloadExceeds THEN 0 ELSE Net16(PayloadBytes[2]))

\* C11, what the code does: the field holds 0 only when (skb->len - 40) lies
\* in 65536 .. 2^31 - 1; for 2^31 and above the int is negative, the test of
\* line 129 is false and the field receives the low 16 bits.
C11_PayloadLenInt ==
    Prepared =>
        payload_len = (IF PayloadBytes[1] >= 1 /\ PayloadBytes[1] < 32768
                       THEN 0 ELSE Net16(PayloadBytes[2]))

\* skb->len = 2^31 + 45: the payload is 2^31 + 5 bytes and the field holds 5
C11_Witness ==
    /\ Prepared
    /\ skb_len = <<32768, 45>>
    /\ payload_len = Net16(5)

\* C12: nf_hook is called once per call, after payload length, nhoff and
\* protocol have been set; ip6_local_out calls dst_output exactly when
\* nf_hook returned 1 and then returns dst_output's result, and otherwise
\* returns nf_hook's result without calling dst_output.
C12_DispatchThenTransmit ==
    /\ hooks <= 1
    /\ xmits <= 1
    /\ opc \in {"test", "done"} => hooks = 1
    /\ hooks > 0 => (Prepared /\ nhoff = 6 /\ protocol = Net16(34525))
    /\ xmits > 0 => (hooks = 1 /\ verdict = 1 /\ entry = "ip6_local_out")
    /\ (opc = "done" /\ entry = "ip6_local_out" /\ verdict = 1) =>
           (xmits = 1 /\ out_ret = xmit)
    /\ (opc = "done" /\ verdict # 1) => (xmits = 0 /\ out_ret = verdict)
    /\ (opc = "done" /\ entry = "__ip6_local_out") =>
           (xmits = 0 /\ out_ret = verdict)

\* ip6_local_out got 1 from nf_hook, called dst_output and returned its
\* result, which differs from nf_hook's
C12_Witness ==
    /\ opc = "done"
    /\ entry = "ip6_local_out"
    /\ verdict = 1
    /\ xmits = 1
    /\ out_ret = xmit
    /\ out_ret # 1

(***************************************************************************)
(* Identifier generator: properties of the two paths.                      *)
(***************************************************************************)
\* the proxy-path calls whose packet does not hold the 32 bytes at offset 8
Unreadable(c) == loc[c].skblen # 0 /\ 8 + 32 > loc[c].skblen

\* C13: a proxy-path call whose packet does not cover the two addresses
\* returns at once: in the step that finds the region unreadable no packet's
\* identifier, no counter and no word of the seed changes, and the call has
\* returned; it takes no later step, so its packet's identifier stays as it
\* was, and it computed no hash and reserved nothing.
C13_UnreadableIsNoOp ==
    /\ [](\A c \in Calls : Unreadable(c) =>
            /\ ipc[c] = "done"
            /\ frag_id[c] = U32Zero
            /\ loc[c] = [NoLoc EXCEPT !.kind = "skipped", !.skblen = loc[c].skblen])
    /\ [][\A c \in Calls : (Unreadable(c)' /\ ~Unreadable(c)) =>
            /\ frag_id' = frag_id
            /\ ip_idents' = ip_idents
            /\ ip_id_key' = ip_id_key]_vars
    /\ [](\A c \in Calls : (ipc[c] # "start" /\ loc[c].kind = "proxy") =>
            loc[c].skblen >= 8 + 32)

\* a proxy call on a 39-byte packet returned after another call had stored
\* a seed and reserved an identifier; its own packet has no identifier
C13_Witness ==
    \E c \in Calls, d \in Issued :
        /\ Unreadable(c)
        /\ loc[c].skblen = 39
        /\ ipc[c] = "done"
        /\ frag_id[c] = U32Zero
        /\ frag_id[d] # U32Zero
        /\ ip_id_key # <<0, 0>>

\* a step of call c
StepOf(c) == ipc'[c] # ipc[c]

\* C14 as claimed: the proxy path has a seed of its own: no step of a
\* proxy-path call stores to net->ipv4.ip_id_key, the seed the routed path
\* hashes with, and none loads a word of it into the key of its hash.
C14_IndependentSeed ==
    [][\A c \in Calls : (StepOf(c) /\ loc'[c].kind = "proxy" /\ ipc[c] # "start") =>
            /\ ip_id_key' = ip_id_key
            /\ loc'[c].key = loc[c].key]_vars

\* a proxy-path call stored the seed; a routed call that started after it
\* had returned hashed the same addresses with that seed, and the two
\* reserved from the same bucket
C14_Witness ==
    \E c, d \in Issued :
        /\ loc[d].kind = "proxy"
        /\ loc[c].kind = "route"
        /\ d < c
        /\ ~raced
        /\ loc[c].saddr = loc[d].saddr
        /\ loc[c].daddr = loc[d].daddr
        /\ loc[d].key = ip_id_key
        /\ loc[c].key = ip_id_key
        /\ ip_id_key # <<0, 0>>
        /\ loc[c].hash = loc[d].hash
        /\ loc[c].bucket = loc[d].bucket

\* unsigned comparison of two u32 values
U32Le(x, y) == x[1] < y[1] \/ (x[1] = y[1] /\ x[2] <= y[2])

\* the step in which call d reserves, while no other call is running
ReservesAlone(d) ==
    /\ ipc[d] = "reserve"
    /\ ipc'[d] = "done"
    /\ \A e \in Calls \ {d} : ipc[e] \in {"start", "done"}

\* the earlier calls that had the same addresses and hashed with the same,
\* non-zero seed as call d
EarlierLike(d) ==
    {c \in Issued : /\ SamePair(c, d)
                    /\ loc[c].key = loc[d].key
                    /\ loc[d].key # <<0, 0>>}

\* C15 as claimed: a call repeated with the same seed and addresses while no
\* other call runs selects the bucket of the earlier calls and obtains a
\* base that is not below theirs.
C15_NonDecreasing ==
    [][\A d \in Calls : ReservesAlone(d) =>
          \A c \in EarlierLike(d) :
              /\ loc'[d].bucket = loc[c].bucket
              /\ U32Le(loc[c].base, loc'[d].base)]_vars

\* C15 as amended: such a call selects the bucket of the earlier calls; its
\* base is the counter's value, the counter moves on by exactly 1 (mod
\* 2^32), and the base differs from every earlier base and is above it
\* unless the counter has passed 2^32 - 1 and wrapped to 0 in between.
C15_IncreasingUpToWrap ==
    [][\A d \in Calls : ReservesAlone(d) =>
          /\ loc'[d].base = ip_idents[loc'[d].bucket]
          /\ ip_idents'[loc'[d].bucket] = U32Add(loc'[d].base, 1)
          /\ \A c \in EarlierLike(d) :
              /\ loc'[d].bucket = loc[c].bucket
              /\ loc'[d].base # loc[c].base
              /\ \/ U32Le(loc[c].base, loc'[d].base)
                 \/ \E e \in Issued : /\ loc[e].bucket = loc[c].bucket
                                      /\ loc[e].base = U32Max]_vars

\* two calls, one after the other, same addresses, same non-zero seed: the
\* first got 2^32 - 1 and the second got 0 from the same bucket
C15_Witness ==
    \E c, d \in Issued :
        /\ c < d
        /\ ~raced
        /\ SamePair(c, d)
        /\ loc[c].key = loc[d].key
        /\ loc[c].key # <<0, 0>>
        /\ loc[c].bucket = loc[d].bucket
        /\ loc[c].base = U32Max
        /\ loc[d].base = U32Zero

(***************************************************************************)
(* The replacement of 0: properties.                                       *)
(***************************************************************************)
Remapped == Len(ids) = 2

\* C16 as claimed: two different bases of one wrap of a counter give two
\* different identifiers.
C16_RemapInjective ==
    Remapped => ids[1] # ids[2]

\* C16 as amended: two different bases of one wrap give the same identifier
\* exactly when they are 0 and 2^31, which both give 2^31; every base other
\* than 0 is returned as it is.
C16_RemapInjectiveButOne ==
    Remapped =>
        /\ ids[1] = ids[2] <=> {bases[1], bases[2]} = {<<0, 0>>, <<32768, 0>>}
        /\ \A i \in 1..2 : bases[i] # <<0, 0>> => ids[i] = bases[i]
        /\ \A i \in 1..2 : bases[i] = <<0, 0>> => ids[i] = <<32768, 0>>

\* bases 0 and 2^31 + 1: the identifiers are 2^31 and 2^31 + 1
C16_Witness ==
    /\ Remapped
    /\ bases = <<U32Zero, <<32768, 1>>>>
    /\ ids = <<HighBit, <<32768, 1>>>>

(***************************************************************************)
(* Identifier generator: the hash input of the two paths.                  *)
(***************************************************************************)
\* the calls that have computed their hash
Hashed == {c \in Calls : ipc[c] \in {"reserve", "done"} /\ loc[c].kind \in {"route", "proxy"}}

\* C17: on both paths the hashed buffer is the destination address followed
\* by the source address, where the routed path takes them from the route
\* and the proxy path reads the source address at the header's source
\* offset and the destination address after it; a routed call and a proxy
\* call with the same addresses and the same seed compute the same hash and
\* reserve from the same bucket.
C17_SameLayout ==
    /\ \A c \in Hashed :
          loc[c].hash = siphash(<<loc[c].daddr, loc[c].saddr>>, loc[c].key)
    /\ \A c, d \in Hashed :
          (/\ loc[c].kind = "route"
           /\ loc[d].kind = "proxy"
           /\ loc[c].saddr = loc[d].saddr
           /\ loc[c].daddr = loc[d].daddr
           /\ loc[c].key = loc[d].key) =>
              /\ loc[c].hash = loc[d].hash
              /\ (c \in Issued /\ d \in Issued) => loc[c].bucket = loc[d].bucket

\* a routed call and a proxy call with the same two addresses hashed with
\* the same non-zero seed and got different bases from one bucket
C17_Witness ==
    \E c, d \in Issued :
        /\ loc[c].kind = "route"
        /\ loc[d].kind = "proxy"
        /\ loc[c].saddr = loc[d].saddr
        /\ loc[c].daddr = loc[d].daddr
        /\ loc[c].saddr # loc[c].daddr
        /\ loc[c].key = loc[d].key
        /\ loc[c].key # <<0, 0>>
        /\ loc[c].hash = loc[d].hash
        /\ loc[c].bucket = loc[d].bucket
        /\ loc[c].base # loc[d].base

(***************************************************************************)
(* Extension-header walk: further properties.                              *)
(***************************************************************************)
\* the i-th header lies wholly inside the captured packet
Inside(i) == i <= Len(Chain) /\ StartOf(i) + 8 * (Chain[i].hdrlen + 1) <= packet_len
HasHao(i) == i <= Len(Chain) /\ Chain[i].hao

\* C18: with CONFIG_IPV6_MIP6, a destination-options header that lies in
\* the captured packet and holds a home-address option is never where the
\* walk stops, also after a routing header; a destination-options header
\* that the walk went past after a routing header is always such a header
\* under CONFIG_IPV6_MIP6.  Without CONFIG_IPV6_MIP6 the walk stops at every
\* destination-options header after a routing header and stops at none
\* before one, whatever options it holds.
C18_HaoTransparent ==
    /\ (/\ mip6
        /\ Done
        /\ TypeOf(Cur) = 60
        /\ HasHao(Cur)
        /\ Inside(Cur)) => (site # 102 /\ ret # StartOf(Cur))
    /\ \A i \in 1..iters :
          (TypeOf(i) = 60 /\ RoutingBefore(i)) => (mip6 /\ HasHao(i) /\ Inside(i))
    /\ (/\ ~mip6
        /\ Done
        /\ StartOf(Cur) <= packet_len
        /\ TypeOf(Cur) = 60
        /\ RoutingBefore(Cur)) => (ret = StartOf(Cur) /\ site = 102)
    /\ (/\ ~mip6
        /\ Done
        /\ StartOf(Cur) <= packet_len
        /\ TypeOf(Cur) = 60
        /\ ~RoutingBefore(Cur)) => ret < 0

\* CONFIG_IPV6_MIP6, routing header, destination-options header with a
\* home-address option, TCP, all captured: the walk returned TCP's offset
C18_Witness ==
    /\ mip6
    /\ Done
    /\ skb_pad = 0
    /\ skb_nexthdr = 43
    /\ Len(skb_hdrs) = 2
    /\ skb_hdrs[1].nexthdr = 60
    /\ skb_hdrs[1].hdrlen = 0
    /\ skb_hdrs[2].hao
    /\ skb_hdrs[2].nexthdr = 6
    /\ ret = 72
    /\ site = 105

\* what every offset returned satisfies, and that no byte outside the
\* captured packet is read
ReturnedOffsetInBounds ==
    /\ (Done /\ ret >= 0) =>
          /\ 40 <= ret
          /\ ret <= packet_len
          /\ ret < 65535
          /\ ret = 40 + SumLen(Chain, iters)
          /\ ret = offset
    /\ ~oob
    /\ wpc \in {"optlen", "maxplen"} => offset + 2 <= packet_len
    /\ \A i \in 1..Len(skb_hdrs) : skb_hdrs[i].at + 2 <= packet_len

\* the header at the current offset has been read before the test of line
\* 108, i.e. by something other than lines 111-113
ReadBeforeCheck == wpc = "trunc" /\ offset >= PadsEnd /\ Known(offset)

\* C19 as claimed: every offset returned is 40 plus the lengths of the
\* headers walked, at least 40, at most packet_len and below 65535; no byte
\* outside the packet is read; and a header's bytes are read only by lines
\* 111-113, which read its 2-byte prefix after the test of line 108.
C19_OnlyPrefixRead ==
    /\ ReturnedOffsetInBounds
    /\ ~ReadBeforeCheck

\* C19 as amended: the same bounds; a header's bytes are read by lines
\* 111-113 (its 2-byte prefix), and besides, under CONFIG_IPV6_MIP6 only,
\* by ipv6_find_tlv, which reads a destination-options header before the
\* test of line 108 and looks at its options only when the whole header
\* lies inside the packet.
C19_InBounds ==
    /\ ReturnedOffsetInBounds
    /\ ReadBeforeCheck => (mip6 /\ NexthdrByte = 60 /\ offset + 2 <= packet_len)
    /\ \A i \in 1..iters :
          (TypeOf(i) = 60 /\ RoutingBefore(i)) => Inside(i)

\* three headers of 8, 24 and 8 bytes walked, offset 80 returned
C19_Witness ==
    /\ Done
    /\ skb_pad = 0
    /\ iters = 3
    /\ Len(skb_hdrs) = 3
    /\ skb_hdrs[1].hdrlen = 0
    /\ skb_hdrs[2].hdrlen = 2
    /\ skb_hdrs[3].hdrlen = 0
    /\ ret = 80
    /\ packet_len = 120

\* C20: the reference handed back designates the base header's next-header
\* byte (offset 6) while no extension header has been walked, and afterwards
\* the first byte of the last header walked, which starts at the offset
\* minus that header's length; when an offset is returned the byte so
\* designated is the type of the header at that offset.
C20_NexthdrRef ==
    /\ iters = 0 => nexthdr = 6
    /\ iters > 0 =>
          /\ nexthdr = StartOf(iters)
          /\ nexthdr = offset - 8 * (Chain[iters].hdrlen + 1)
    /\ (Done /\ ret >= 0) =>
          /\ ret = offset
          /\ NexthdrByte = TypeOf(Cur)
          /\ NexthdrByte = (IF iters = 0 THEN skb_nexthdr ELSE Chain[iters].nexthdr)

\* hop-by-hop (8 bytes), routing (24 bytes), then a fragment header: offset
\* 72 returned, the reference designates byte 48, which holds 44
C20_Witness ==
    /\ Done
    /\ skb_pad = 0
    /\ skb_nexthdr = 0
    /\ iters = 2
    /\ skb_hdrs[1].hdrlen = 0
    /\ skb_hdrs[1].nexthdr = 43
    /\ skb_hdrs[2].hdrlen = 2
    /\ skb_hdrs[2].nexthdr = 44
    /\ ret = 72
    /\ nexthdr = 48
    /\ NexthdrByte = 44

=============================================================================
